---------------------------- MODULE Spec2Model ----------------------------
(***************************************************************************)
(* VoxText: offline streaming speech-to-text front ends around a Vosk      *)
(* recognizer.  Three programs are modelled:                               *)
(*                                                                         *)
(*   Voxtext1.py     push-to-talk Tk application (PushToTalkApp)           *)
(*                   specification Spec                                    *)
(*   Voxtext.py      continuous command-line loop (main)                   *)
(*                   specification SpecCli                                 *)
(*   should_print    the duplicate filter of Voxtext1.py, a pure function  *)
(*                   specification SpecFilter                              *)
(*                                                                         *)
(* Text is a sequence of one-character strings, so that lower(), strip(),  *)
(* split() and join() are computed rather than assumed.                    *)
(***************************************************************************)
EXTENDS Integers, Sequences, FiniteSets, TLC

(***************************************************************************)
(* Bounds of the model                                                     *)
(***************************************************************************)
\* longest text the duplicate filter is tried on
MaxLen == 3

\* frames the capture device delivers in one run
MaxFrames == 3

\* listen cycles (start toggles) in one run
MaxCycles == 2

\* clock ticks in one run of the continuous program
MaxTime == 4

\* frames put through the gate on its own
MaxGateFrames == 8

\* capacity of the frame queue in the model; the programs construct it with
\* queue.Queue(maxsize=50), (maxsize=200) and (maxsize=120)
maxsize == 2

\* the characters texts are built from: two letters, an upper-case letter
\* and a whitespace character
Chars == {"a", "b", "A", " "}

RECURSIVE StrUpTo(_)
StrUpTo(n) ==
    IF n = 0 THEN {<<>>}
    ELSE LET S == StrUpTo(n - 1)
         IN  S \cup {Append(s, c) : s \in {x \in S : Len(x) = n - 1}, c \in Chars}

Str == StrUpTo(MaxLen)

(***************************************************************************)
(* Python string operations used by the programs                           *)
(***************************************************************************)
\* str.isspace() of one character
IsSpace(c) == c = " "

\* str.lower() of one character
LowerChar(c) == IF c = "A" THEN "a" ELSE c

\* str.lower()
Lower(s) == [i \in 1..Len(s) |-> LowerChar(s[i])]

\* str.lstrip() / str.rstrip() / str.strip()
RECURSIVE LStrip(_)
LStrip(s) ==
    IF s # <<>> /\ IsSpace(Head(s)) THEN LStrip(Tail(s)) ELSE s

RECURSIVE RStrip(_)
RStrip(s) ==
    IF s # <<>> /\ IsSpace(s[Len(s)]) THEN RStrip(SubSeq(s, 1, Len(s) - 1)) ELSE s

Strip(s) == RStrip(LStrip(s))

\* str.split() with no argument: the maximal runs of non-whitespace, in order
RECURSIVE SplitFrom(_, _, _)
SplitFrom(s, cur, acc) ==
    IF s = <<>>
    THEN IF cur = <<>> THEN acc ELSE Append(acc, cur)
    ELSE IF IsSpace(Head(s))
         THEN SplitFrom(Tail(s), <<>>, IF cur = <<>> THEN acc ELSE Append(acc, cur))
         ELSE SplitFrom(Tail(s), Append(cur, Head(s)), acc)

Split(s) == SplitFrom(s, <<>>, <<>>)

\* " ".join(words)
RECURSIVE Join(_)
Join(words) ==
    IF words = <<>> THEN <<>>
    ELSE IF Len(words) = 1 THEN words[1]
    ELSE words[1] \o <<" ">> \o Join(Tail(words))

\* a in b, for strings
IsSubstring(a, b) ==
    \E i \in 0..(Len(b) - Len(a)) : SubSeq(b, i + 1, i + Len(a)) = a

(***************************************************************************)
(* Voxtext1.py: normalize_text, should_print                               *)
(***************************************************************************)
\* a slip of normalize_text: the lower() call is missing
normalize_text_nolower(t) == Join(Split(Strip(t)))

\* def normalize_text(t): return " ".join((t or "").lower().strip().split())
normalize_text(t) == Join(Split(Strip(Lower(t))))

\* a slip of should_print: the near-duplicate test (lines 51-52) is missing
should_print_exact(new_text, last_text) ==
    LET n == normalize_text(new_text)
        l == normalize_text(last_text)
    IN  IF n = <<>> THEN FALSE
        ELSE IF n = l THEN FALSE
        ELSE TRUE

\* def should_print(new_text, last_text)
should_print(new_text, last_text) ==
    LET n == normalize_text(new_text)
        l == normalize_text(last_text)
    IN  IF n = <<>> THEN FALSE
        ELSE IF n = l THEN FALSE
        ELSE IF l # <<>> /\ (IsSubstring(n, l) \/ IsSubstring(l, n))
             THEN Len(n) > Len(l)
        ELSE TRUE

\* MIN_FINAL_CHARS of Voxtext1.py
MIN_FINAL_CHARS == 2

\* a frame: its capture sequence number and the listen cycle it was captured in
NoFrame == [id |-> 0, cyc |-> 0]

\* no FINAL line appended yet
NoLine == [cyc |-> 0, text |-> <<>>, shown |-> FALSE]

\* one call on the recognizer, as noted when it begins: the operation, the
\* calling thread, the frame, and self.listening as it is at the call and as
\* the caller last read or wrote it
RecCall(op, by, b, lis, seen) ==
    [op |-> op, by |-> by, id |-> b.id, cyc |-> b.cyc, lis |-> lis, seen |-> seen]

NoCall == RecCall("none", "none", NoFrame, FALSE, FALSE)

\* the texts the recognizer's FinalResult() is taken to return
RecTexts == {<<>>, <<"a">>, <<"a", "b">>, <<"A", "b", " ">>}

(***************************************************************************)
(* State                                                                   *)
(***************************************************************************)
VARIABLES
    \* duplicate filter driver (SpecFilter)
    f_pc,        \* "call": first presentation pending, "again": second, "done"
    f_new,       \* the text presented (new_text)
    f_last,      \* the caller's last accepted text (last_text)
    f_last0,     \* the last accepted text the first call was made with
    f_res1,      \* result of the first call
    f_res2,      \* result of presenting the same text again
    \* PushToTalkApp (Voxtext1.py)
    listening,   \* self.listening
    stream,      \* self.stream: "none" or "open" (started RawInputStream)
    audio_q,     \* self.audio_q: the queued frames, oldest first
    last_final,  \* self.last_final
    worker_stop, \* self.worker_stop (threading.Event)
    output,      \* the FINAL line most recently appended to the text widget
    cb_pc,       \* capture callback: "idle", "put"
    cb_frame,    \* the frame the callback is about to enqueue
    ui_pc,       \* Tk main loop: "idle" or the position inside a handler
    ui_b,        \* the frame the stop-time drain holds
    w_pc,        \* worker_loop: "get", "check", "accept", "in_accept", "exit"
    w_b,         \* the frame the worker holds
    w_seen,      \* what the worker read from self.listening at line 212
    \* bookkeeping of the run (not program state)
    nframes,     \* frames captured so far
    cycle,       \* listen cycles started so far
    stopped,     \* cycles whose listening flag has gone back to false
    rec_last,    \* the call most recently begun on the recognizer
    fed,         \* ids of the frames given to AcceptWaveform, in call order
    flushes,     \* per listen cycle, the FinalResult calls begun for it
    \* main() of Voxtext.py
    last_final_text,       \* global last_final_text
    partial_last,          \* partial_last
    last_partial_print_t,  \* last_partial_print_t
    now,                   \* time.time()
    finals,                \* the FINAL texts printed, in order
    taken,                 \* the frame most recently taken from the queue
    gate,                  \* the design's SpeechGate run on the frames consumed
    \* bookkeeping of the gate on its own (SpecGate)
    g_ff,        \* forceFinalize events since the gate was last in Speech
    g_prev,      \* the gate before the frame most recently processed
    g_loud,      \* some frame after calibration was at or above the minimum
    \* VoxTextApp (Voxtext_app.py), beside the fields it shares by name
    after_q,     \* callbacks scheduled with self.after(0, ...), oldest first
    textbox,     \* the rank of the recognized text most recently inserted
                 \* into the text box (0: none yet)
    w_text,      \* the worker's local text (or p) between two statements
    ui_text,     \* the toggle handler's local text
    w_n,         \* the rank of the result the worker's text came with
    ui_n,        \* the rank of the result the toggle handler's text came with
    nres,        \* results the recognizer has returned so far
    p_time       \* time of the most recent partial emission, -1 before it

filterVars == <<f_pc, f_new, f_last, f_last0, f_res1, f_res2>>

pttVars == <<listening, stream, audio_q, last_final, worker_stop, output,
             cb_pc, cb_frame, ui_pc, ui_b, w_pc, w_b, w_seen,
             nframes, cycle, stopped, rec_last, fed, flushes>>

cliVars == <<last_final_text, partial_last, last_partial_print_t, now, finals,
             taken, gate>>

gateVars == <<g_ff, g_prev, g_loud>>

appVars == <<after_q, textbox, w_text, ui_text, w_n, ui_n, nres, p_time>>

vars == <<filterVars, pttVars, cliVars, gateVars, appVars>>

\* the variables of the other programs at rest
FilterIdle ==
    /\ f_pc = "done" /\ f_new = <<>> /\ f_last = <<>> /\ f_last0 = <<>>
    /\ f_res1 = FALSE /\ f_res2 = FALSE

CliIdle ==
    /\ last_final_text = <<>> /\ partial_last = <<>> /\ last_partial_print_t = 0
    /\ now = 0 /\ finals = <<>> /\ taken = NoFrame /\ gate = "none"

GateIdle == g_ff = 0 /\ g_prev = "none" /\ g_loud = FALSE

AppIdle ==
    /\ after_q = <<>> /\ textbox = 0
    /\ w_text = <<>> /\ ui_text = <<>> /\ w_n = 0 /\ ui_n = 0 /\ nres = 0
    /\ p_time = -1

PttIdle ==
    /\ listening = FALSE /\ stream = "none" /\ audio_q = <<>>
    /\ last_final = <<>> /\ worker_stop = FALSE /\ output = NoLine
    /\ cb_pc = "idle" /\ cb_frame = NoFrame
    /\ ui_pc = "idle" /\ ui_b = NoFrame
    /\ w_pc = "get" /\ w_b = NoFrame /\ w_seen = FALSE
    /\ nframes = 0 /\ cycle = 0 /\ stopped = {}
    /\ rec_last = NoCall /\ fed = <<>> /\ flushes = [c \in 1..MaxCycles |-> 0]

(***************************************************************************)
(* SpecFilter: should_print driven the way its caller drives it            *)
(* (Voxtext1.py:192-193): a text that is accepted is recorded as the last  *)
(* accepted text; here the same text is then presented a second time.      *)
(***************************************************************************)
InitFilter ==
    /\ f_pc = "call"
    /\ f_new \in Str
    /\ f_last \in Str
    /\ f_last0 = f_last
    /\ f_res1 = FALSE
    /\ f_res2 = FALSE
    /\ PttIdle
    /\ CliIdle
    /\ GateIdle
    /\ AppIdle

\* if should_print(text, self.last_final): self.last_final = text
FilterCall ==
    /\ f_pc = "call"
    /\ f_res1' = should_print(f_new, f_last)
    /\ f_last' = IF should_print(f_new, f_last) THEN f_new ELSE f_last
    /\ f_pc' = "again"
    /\ UNCHANGED <<f_new, f_last0, f_res2, pttVars, cliVars, gateVars, appVars>>

\* the same text presented again
FilterAgain ==
    /\ f_pc = "again"
    /\ f_res2' = should_print(f_new, f_last)
    /\ f_last' = IF should_print(f_new, f_last) THEN f_new ELSE f_last
    /\ f_pc' = "done"
    /\ UNCHANGED <<f_new, f_last0, f_res1, pttVars, cliVars, gateVars, appVars>>

NextFilter == FilterCall \/ FilterAgain

SpecFilter == InitFilter /\ [][NextFilter]_vars

(***************************************************************************)
(* Spec: PushToTalkApp of Voxtext1.py.  Three threads share the object:    *)
(* the PortAudio capture thread (audio_callback), the Tk main loop         *)
(* (toggle_listening, on_close) and the worker thread (worker_loop).       *)
(* Python switches threads between any two statements, and a call into     *)
(* the recognizer releases the interpreter lock, so each statement that    *)
(* another thread can observe is a step of its own and a recognizer call   *)
(* has a beginning and an end.                                             *)
(***************************************************************************)
\* __init__ (lines 76-89): not listening, no stream, empty queue, the worker
\* thread started
Init ==
    /\ PttIdle
    /\ FilterIdle
    /\ CliIdle
    /\ GateIdle
    /\ AppIdle

\* audio_callback, line 113: if not self.listening: return
cb_check ==
    /\ stream = "open"
    /\ cb_pc = "idle"
    /\ nframes < MaxFrames
    /\ IF listening
       THEN /\ cb_pc' = "put"
            /\ cb_frame' = [id |-> nframes + 1, cyc |-> cycle]
            /\ nframes' = nframes + 1
       ELSE UNCHANGED <<cb_pc, cb_frame, nframes>>
    /\ UNCHANGED <<filterVars, cliVars, gateVars, appVars>>
    /\ UNCHANGED <<listening, stream, audio_q, last_final, worker_stop, output,
                   ui_pc, ui_b, w_pc, w_b, w_seen, cycle, stopped, rec_last, fed, flushes>>

\* a slip of put_nowait: the queue is built without maxsize and always grows
put_nowait_unbounded(q, b) == Append(q, b)

\* queue.Queue.put_nowait: raises queue.Full when the queue holds maxsize items
put_nowait(q, b) == IF Len(q) >= maxsize THEN q ELSE Append(q, b)

\* audio_callback, lines 115-118: put_nowait, and on queue.Full drop the frame
cb_put ==
    /\ cb_pc = "put"
    /\ audio_q' = put_nowait(audio_q, cb_frame)
    /\ cb_pc' = "idle"
    /\ cb_frame' = NoFrame
    /\ UNCHANGED <<filterVars, cliVars, gateVars, appVars>>
    /\ UNCHANGED <<listening, stream, last_final, worker_stop, output,
                   ui_pc, ui_b, w_pc, w_b, w_seen, nframes, cycle, stopped, rec_last, fed, flushes>>

\* toggle_listening, lines 159-166: the start branch sets self.listening and,
\* the first time, opens and starts the stream (no other thread acts on the
\* difference between the two statements: without a stream the queue is empty)
ui_start ==
    /\ ui_pc = "idle"
    /\ ~listening
    /\ cycle < MaxCycles
    /\ listening' = TRUE
    /\ cycle' = cycle + 1
    /\ stream' = "open"
    /\ ui_pc' = "reset"
    /\ UNCHANGED <<filterVars, cliVars, gateVars, appVars>>
    /\ UNCHANGED <<audio_q, last_final, worker_stop, output,
                   cb_pc, cb_frame, ui_b, w_pc, w_b, w_seen, nframes, stopped, rec_last, fed, flushes>>

\* toggle_listening, line 168: self.rec.Reset() begins
ui_reset_call ==
    /\ ui_pc = "reset"
    /\ rec_last' = RecCall("reset", "ui", [id |-> 0, cyc |-> cycle], listening, listening)
    /\ UNCHANGED <<fed, flushes>>
    /\ ui_pc' = "in_reset"
    /\ UNCHANGED <<filterVars, cliVars, gateVars, appVars>>
    /\ UNCHANGED <<listening, stream, audio_q, last_final, worker_stop, output,
                   cb_pc, cb_frame, ui_b, w_pc, w_b, w_seen, nframes, cycle, stopped>>

\* toggle_listening, line 168: self.rec.Reset() returns; the handler is done
ui_reset_return ==
    /\ ui_pc = "in_reset"
    /\ ui_pc' = "idle"
    /\ UNCHANGED <<filterVars, cliVars, gateVars, appVars>>
    /\ UNCHANGED <<listening, stream, audio_q, last_final, worker_stop, output,
                   cb_pc, cb_frame, ui_b, w_pc, w_b, w_seen, nframes, cycle, stopped, rec_last, fed, flushes>>

\* toggle_listening, lines 169-177: the stop branch clears self.listening
ui_stop ==
    /\ ui_pc = "idle"
    /\ listening
    /\ listening' = FALSE
    /\ stopped' = stopped \cup {cycle}
    /\ ui_pc' = "drain"
    /\ UNCHANGED <<filterVars, cliVars, gateVars, appVars>>
    /\ UNCHANGED <<stream, audio_q, last_final, worker_stop, output,
                   cb_pc, cb_frame, ui_b, w_pc, w_b, w_seen, nframes, cycle, rec_last, fed, flushes>>

\* toggle_listening, lines 178-182: one turn of the drain loop; it ends when
\* the 0.4 s are over or the queue is empty
ui_drain_get ==
    /\ ui_pc = "drain"
    /\ \/ /\ ui_pc' = "final"                      \* time.time() >= time_limit
          /\ UNCHANGED <<audio_q, ui_b>>
       \/ /\ audio_q = <<>>                        \* queue.Empty: break
          /\ ui_pc' = "final"
          /\ UNCHANGED <<audio_q, ui_b>>
       \/ /\ audio_q # <<>>                        \* b = get_nowait()
          /\ ui_b' = Head(audio_q)
          /\ audio_q' = Tail(audio_q)
          /\ ui_pc' = "drain_accept"
    /\ UNCHANGED <<filterVars, cliVars, gateVars, appVars>>
    /\ UNCHANGED <<listening, stream, last_final, worker_stop, output,
                   cb_pc, cb_frame, w_pc, w_b, w_seen, nframes, cycle, stopped, rec_last, fed, flushes>>

\* toggle_listening, line 183: self.rec.AcceptWaveform(b) begins
ui_drain_accept_call ==
    /\ ui_pc = "drain_accept"
    /\ rec_last' = RecCall("accept", "ui", ui_b, listening, listening)
    /\ fed' = Append(fed, ui_b.id)
    /\ UNCHANGED flushes
    /\ ui_pc' = "in_drain_accept"
    /\ UNCHANGED <<filterVars, cliVars, gateVars, appVars>>
    /\ UNCHANGED <<listening, stream, audio_q, last_final, worker_stop, output,
                   cb_pc, cb_frame, ui_b, w_pc, w_b, w_seen, nframes, cycle, stopped>>

\* toggle_listening, line 183: AcceptWaveform returns and the loop goes on, or
\* it raises (vosk: "Failed to process waveform"); line 183 is in no try
\* block, so the exception ends the handler before FinalResult
ui_drain_accept_return ==
    /\ ui_pc = "in_drain_accept"
    /\ \/ ui_pc' = "drain"
       \/ ui_pc' = "idle"
    /\ ui_b' = NoFrame
    /\ UNCHANGED <<filterVars, cliVars, gateVars, appVars>>
    /\ UNCHANGED <<listening, stream, audio_q, last_final, worker_stop, output,
                   cb_pc, cb_frame, w_pc, w_b, w_seen, nframes, cycle, stopped, rec_last, fed, flushes>>

\* toggle_listening, line 187: self.rec.FinalResult() begins
ui_final_call ==
    /\ ui_pc = "final"
    /\ rec_last' = RecCall("final", "ui", [id |-> 0, cyc |-> cycle], listening, listening)
    /\ flushes' = [flushes EXCEPT ![cycle] = @ + 1]
    /\ UNCHANGED fed
    /\ ui_pc' = "in_final"
    /\ UNCHANGED <<filterVars, cliVars, gateVars, appVars>>
    /\ UNCHANGED <<listening, stream, audio_q, last_final, worker_stop, output,
                   cb_pc, cb_frame, ui_b, w_pc, w_b, w_seen, nframes, cycle, stopped>>

\* what lines 192-196 append to the text widget for the flushed text
FinalLine(text, last) ==
    IF Len(text) >= MIN_FINAL_CHARS /\ should_print(text, last)
    THEN [cyc |-> cycle, text |-> text, shown |-> TRUE]
    ELSE [cyc |-> cycle, text |-> text, shown |-> FALSE]

\* toggle_listening, lines 186-198: FinalResult returns res (an exception
\* gives text = ""), text = res["text"].strip(); the text is printed when it
\* is long enough and should_print lets it through
ui_final_return ==
    /\ ui_pc = "in_final"
    /\ \E res \in RecTexts :
         LET text == Strip(res)
         IN  /\ output' = FinalLine(text, last_final)
             /\ last_final' = IF FinalLine(text, last_final).shown THEN text ELSE last_final
    /\ ui_pc' = "idle"
    /\ UNCHANGED <<filterVars, cliVars, gateVars, appVars>>
    /\ UNCHANGED <<listening, stream, audio_q, worker_stop,
                   cb_pc, cb_frame, ui_b, w_pc, w_b, w_seen, nframes, cycle, stopped, rec_last, fed, flushes>>

\* on_close, line 226: self.worker_stop.set()
ui_close ==
    /\ ui_pc = "idle"
    /\ worker_stop' = TRUE
    /\ ui_pc' = "close_listening"
    /\ UNCHANGED <<filterVars, cliVars, gateVars, appVars>>
    /\ UNCHANGED <<listening, stream, audio_q, last_final, output,
                   cb_pc, cb_frame, ui_b, w_pc, w_b, w_seen, nframes, cycle, stopped, rec_last, fed, flushes>>

\* on_close, line 227: self.listening = False
ui_close_listening ==
    /\ ui_pc = "close_listening"
    /\ listening' = FALSE
    /\ stopped' = IF listening THEN stopped \cup {cycle} ELSE stopped
    /\ ui_pc' = "close_stream"
    /\ UNCHANGED <<filterVars, cliVars, gateVars, appVars>>
    /\ UNCHANGED <<stream, audio_q, last_final, worker_stop, output,
                   cb_pc, cb_frame, ui_b, w_pc, w_b, w_seen, nframes, cycle, rec_last, fed, flushes>>

\* on_close, lines 228-229: stop_stream() (stream.stop() waits for a running
\* callback to return), then the window is destroyed
ui_close_stream ==
    /\ ui_pc = "close_stream"
    /\ cb_pc = "idle"
    /\ stream' = "none"
    /\ ui_pc' = "closed"
    /\ UNCHANGED <<filterVars, cliVars, gateVars, appVars>>
    /\ UNCHANGED <<listening, audio_q, last_final, worker_stop, output,
                   cb_pc, cb_frame, ui_b, w_pc, w_b, w_seen, nframes, cycle, stopped, rec_last, fed, flushes>>

\* a worker whose get() has no timeout: it sees worker_stop only when a
\* frame arrives
w_get_blocking ==
    /\ w_pc = "get"
    /\ audio_q # <<>>
    /\ IF worker_stop
       THEN /\ w_pc' = "exit"
            /\ UNCHANGED <<audio_q, w_b>>
       ELSE /\ w_b' = Head(audio_q)
            /\ audio_q' = Tail(audio_q)
            /\ w_pc' = "check"
    /\ UNCHANGED <<filterVars, cliVars, gateVars, appVars>>
    /\ UNCHANGED <<listening, stream, last_final, worker_stop, output,
                   cb_pc, cb_frame, ui_pc, ui_b, w_seen, nframes, cycle, stopped, rec_last, fed, flushes>>

\* worker_loop, lines 205-209: leave the loop when worker_stop is set, else
\* take the oldest frame (an empty queue times out and the loop turns again)
w_get ==
    /\ w_pc = "get"
    /\ IF worker_stop
       THEN /\ w_pc' = "exit"
            /\ UNCHANGED <<audio_q, w_b>>
       ELSE IF audio_q # <<>>
       THEN /\ w_b' = Head(audio_q)
            /\ audio_q' = Tail(audio_q)
            /\ w_pc' = "check"
       ELSE UNCHANGED <<audio_q, w_b, w_pc>>
    /\ UNCHANGED <<filterVars, cliVars, gateVars, appVars>>
    /\ UNCHANGED <<listening, stream, last_final, worker_stop, output,
                   cb_pc, cb_frame, ui_pc, ui_b, w_seen, nframes, cycle, stopped, rec_last, fed, flushes>>

\* a slip of w_check: the test of self.listening is missing
w_check_always ==
    /\ w_pc = "check"
    /\ w_seen' = listening
    /\ w_pc' = "accept"
    /\ UNCHANGED <<filterVars, cliVars, gateVars, appVars>>
    /\ UNCHANGED <<listening, stream, audio_q, last_final, worker_stop, output,
                   cb_pc, cb_frame, ui_pc, ui_b, w_b, nframes, cycle, stopped, rec_last, fed, flushes>>

\* worker_loop, lines 212-213: if not self.listening: continue
w_check ==
    /\ w_pc = "check"
    /\ w_seen' = listening
    /\ IF listening
       THEN /\ w_pc' = "accept"
            /\ UNCHANGED w_b
       ELSE /\ w_pc' = "get"
            /\ w_b' = NoFrame
    /\ UNCHANGED <<filterVars, cliVars, gateVars, appVars>>
    /\ UNCHANGED <<listening, stream, audio_q, last_final, worker_stop, output,
                   cb_pc, cb_frame, ui_pc, ui_b, nframes, cycle, stopped, rec_last, fed, flushes>>

\* worker_loop, line 216: self.rec.AcceptWaveform(b) begins
w_accept_call ==
    /\ w_pc = "accept"
    /\ rec_last' = RecCall("accept", "worker", w_b, listening, w_seen)
    /\ fed' = Append(fed, w_b.id)
    /\ UNCHANGED flushes
    /\ w_pc' = "in_accept"
    /\ UNCHANGED <<filterVars, cliVars, gateVars, appVars>>
    /\ UNCHANGED <<listening, stream, audio_q, last_final, worker_stop, output,
                   cb_pc, cb_frame, ui_pc, ui_b, w_b, w_seen, nframes, cycle, stopped>>

\* worker_loop, lines 216-219: AcceptWaveform returns, or raises and the
\* exception is passed over; either way the loop turns again
w_accept_return ==
    /\ w_pc = "in_accept"
    /\ w_pc' = "get"
    /\ w_b' = NoFrame
    /\ UNCHANGED <<filterVars, cliVars, gateVars, appVars>>
    /\ UNCHANGED <<listening, stream, audio_q, last_final, worker_stop, output,
                   cb_pc, cb_frame, ui_pc, ui_b, w_seen, nframes, cycle, stopped, rec_last, fed, flushes>>

Next ==
    \/ cb_check \/ cb_put
    \/ ui_start \/ ui_reset_call \/ ui_reset_return
    \/ ui_stop \/ ui_drain_get \/ ui_drain_accept_call \/ ui_drain_accept_return
    \/ ui_final_call \/ ui_final_return
    \/ ui_close \/ ui_close_listening \/ ui_close_stream
    \/ w_get \/ w_check \/ w_accept_call \/ w_accept_return

Spec == Init /\ [][Next]_vars

\* The worker thread keeps running: the interpreter switches to it again and
\* again, get(timeout=0.1) returns after at most 0.1 s (line 207), and a call
\* of AcceptWaveform returns.
SpecLive ==
    /\ Init /\ [][Next]_vars
    /\ WF_vars(w_get \/ w_check \/ w_accept_call \/ w_accept_return)

(***************************************************************************)
(* SpeechGate of the design (sections 4.2 and 4.3 of the specification).   *)
(* None of the three programs computes a frame energy, a noise floor or a  *)
(* gate state; the gate is stated here as the design gives it, in whole    *)
(* frames and whole energy units, to say which frames the design would     *)
(* feed.                                                                   *)
(***************************************************************************)
\* frames of the calibration window
CalibFrames == 1

\* minAbsoluteThreshold
MinAbsThreshold == 1

\* startMultiplier and stopMultiplier, in tenths (2.2 and 1.6)
StartMultiplierX10 == 22

StopMultiplierX10 == 16

\* minimum speech duration, hangover duration, forced-finalize silence
\* duration, in frames
MinSpeechFrames == 2

HangoverFrames == 2

ForceFinalizeFrames == 3

\* the energies a frame can have
Energies == {0, 1, 4}

Max2(a, b) == IF a >= b THEN a ELSE b

\* a threshold test with the comparison turned round
AtLeastThreshold_inverted(e, floor, mulX10) == 10 * e <= floor * mulX10

\* e >= max(minAbsoluteThreshold, noiseFloor * multiplier)
AtLeastThreshold(e, floor, mulX10) ==
    e >= MinAbsThreshold /\ 10 * e >= floor * mulX10

\* floor = (1 - alpha) * floor + alpha * energy with alpha = 1/2, never below
\* the absolute minimum
ObserveFloor(floor, e) == Max2(MinAbsThreshold, (floor + e) \div 2)

GateInit ==
    [state |-> "Calibrating", floor |-> MinAbsThreshold, n |-> 0, sum |-> 0,
     onset |-> 0, hang |-> 0, sil |-> 0, event |-> "none"]

\* the gate record with the event of the previous frame cleared
NoEvent(g) == [g EXCEPT !.event = "none"]

\* Calibrating: the frame is added to the running average; when the window
\* is over the average seeds the floor and the gate is in Silence
GateCalibrating(g, e) ==
    IF g.n + 1 >= CalibFrames
    THEN [NoEvent(g) EXCEPT !.state = "Silence", !.n = g.n + 1, !.sum = g.sum + e,
                            !.floor = Max2(MinAbsThreshold, (g.sum + e) \div (g.n + 1))]
    ELSE [NoEvent(g) EXCEPT !.n = g.n + 1, !.sum = g.sum + e]

\* a Silence whose silence counter is not reset by forceFinalize
GateSilence_repeat(g, e) ==
    IF AtLeastThreshold(e, g.floor, StartMultiplierX10)
    THEN [NoEvent(g) EXCEPT !.state = "Onset", !.onset = 1]
    ELSE IF g.sil + 1 >= ForceFinalizeFrames /\ g.sil > 0
    THEN [NoEvent(g) EXCEPT !.floor = ObserveFloor(g.floor, e),
                            !.event = "forceFinalize"]
    ELSE [NoEvent(g) EXCEPT !.floor = ObserveFloor(g.floor, e),
                            !.sil = IF g.sil > 0 THEN g.sil + 1 ELSE 0]

\* Silence: e >= startThreshold starts an onset; otherwise the floor is
\* updated and a running silence counter (one that began in Hangover)
\* counts on, emits forceFinalize when it reaches the forced-finalize
\* duration, and is then reset
GateSilence(g, e) ==
    IF AtLeastThreshold(e, g.floor, StartMultiplierX10)
    THEN [NoEvent(g) EXCEPT !.state = "Onset", !.onset = 1]
    ELSE IF g.sil + 1 >= ForceFinalizeFrames /\ g.sil > 0
    THEN [NoEvent(g) EXCEPT !.floor = ObserveFloor(g.floor, e), !.sil = 0,
                            !.event = "forceFinalize"]
    ELSE [NoEvent(g) EXCEPT !.floor = ObserveFloor(g.floor, e),
                            !.sil = IF g.sil > 0 THEN g.sil + 1 ELSE 0]

\* an Onset that a frame below the start threshold does not end
GateOnset_sticky(g, e) ==
    IF g.onset + 1 >= MinSpeechFrames
       /\ AtLeastThreshold(e, g.floor, StartMultiplierX10)
    THEN [NoEvent(g) EXCEPT !.state = "Speech", !.onset = g.onset + 1,
                            !.hang = HangoverFrames]
    ELSE [NoEvent(g) EXCEPT !.onset =
              IF AtLeastThreshold(e, g.floor, StartMultiplierX10)
              THEN g.onset + 1 ELSE g.onset]

\* Onset: e < startThreshold goes back to Silence and resets the onset
\* duration; otherwise the onset duration grows and, at the minimum speech
\* duration, the gate is in Speech with the hangover timer at its maximum
GateOnset(g, e) ==
    IF ~AtLeastThreshold(e, g.floor, StartMultiplierX10)
    THEN [NoEvent(g) EXCEPT !.state = "Silence", !.onset = 0,
                            !.floor = ObserveFloor(g.floor, e)]
    ELSE IF g.onset + 1 >= MinSpeechFrames
    THEN [NoEvent(g) EXCEPT !.state = "Speech", !.onset = g.onset + 1,
                            !.hang = HangoverFrames]
    ELSE [NoEvent(g) EXCEPT !.onset = g.onset + 1]

\* a Speech that goes on observing the floor
GateSpeech_update(g, e) ==
    IF AtLeastThreshold(e, g.floor, StopMultiplierX10)
    THEN [NoEvent(g) EXCEPT !.hang = HangoverFrames,
                            !.floor = ObserveFloor(g.floor, e)]
    ELSE [NoEvent(g) EXCEPT !.state = "Hangover", !.hang = HangoverFrames - 1,
                            !.sil = 1]

\* Speech: e >= stopThreshold resets the hangover timer; otherwise the
\* hangover countdown and the silence counter start
GateSpeech(g, e) ==
    IF AtLeastThreshold(e, g.floor, StopMultiplierX10)
    THEN [NoEvent(g) EXCEPT !.hang = HangoverFrames]
    ELSE [NoEvent(g) EXCEPT !.state = "Hangover", !.hang = HangoverFrames - 1,
                            !.sil = 1]

\* Hangover: e >= stopThreshold goes back to Speech; otherwise the
\* countdown and the silence counter go on, and at 0 the gate is in Silence
\* and utteranceEnded is emitted
GateHangover(g, e) ==
    IF AtLeastThreshold(e, g.floor, StopMultiplierX10)
    THEN [NoEvent(g) EXCEPT !.state = "Speech", !.hang = HangoverFrames, !.sil = 0]
    ELSE IF g.hang - 1 <= 0
    THEN [NoEvent(g) EXCEPT !.state = "Silence", !.hang = 0, !.onset = 0,
                            !.sil = g.sil + 1, !.event = "utteranceEnded"]
    ELSE [NoEvent(g) EXCEPT !.hang = g.hang - 1, !.sil = g.sil + 1]

\* one frame of energy e through the gate (transition table of section 4.3)
GateStep(g, e) ==
    CASE g.state = "Calibrating" -> GateCalibrating(g, e)
      [] g.state = "Silence" -> GateSilence(g, e)
      [] g.state = "Onset" -> GateOnset(g, e)
      [] g.state = "Speech" -> GateSpeech(g, e)
      [] OTHER -> GateHangover(g, e)

\* the gate states in which the design feeds the recognizer
GateOpen == {"Speech", "Hangover"}

(***************************************************************************)
(* SpecGate: the gate on its own, one frame of any energy at a time.  The  *)
(* design feeds the recognizer the frames after which the gate is in       *)
(* Speech or Hangover.                                                     *)
(***************************************************************************)
\* the energies a frame can have here: one more, above the start threshold
\* of a raised floor
GateEnergies == Energies \cup {9}

InitGate ==
    /\ FilterIdle
    /\ PttIdle
    /\ AppIdle
    /\ last_final_text = <<>> /\ partial_last = <<>> /\ last_partial_print_t = 0
    /\ now = 0 /\ finals = <<>> /\ taken = NoFrame
    /\ gate = GateInit
    /\ g_ff = 0 /\ g_prev = GateInit /\ g_loud = FALSE

\* section 4.3: one frame goes through the gate
gate_frame ==
    /\ nframes < MaxGateFrames
    /\ \E e \in GateEnergies :
         /\ gate' = GateStep(gate, e)
         /\ taken' = [id |-> nframes + 1, cyc |-> 0, e |-> e]
         /\ g_loud' = (g_loud \/ (gate.state # "Calibrating" /\ e >= MinAbsThreshold))
    /\ g_prev' = gate
    /\ nframes' = nframes + 1
    /\ fed' = IF gate'.state \in GateOpen THEN Append(fed, nframes + 1) ELSE fed
    /\ g_ff' = IF gate'.state \in GateOpen THEN 0
               ELSE IF gate'.event = "forceFinalize" THEN g_ff + 1
               ELSE g_ff
    /\ UNCHANGED <<listening, stream, audio_q, last_final, worker_stop, output,
                   cb_pc, cb_frame, ui_pc, ui_b, w_pc, w_b, w_seen, cycle,
                   stopped, rec_last, flushes>>
    /\ UNCHANGED <<last_final_text, partial_last, last_partial_print_t, now, finals>>
    /\ UNCHANGED <<filterVars, appVars>>

NextGate == gate_frame

SpecGate == InitGate /\ [][NextGate]_vars

(***************************************************************************)
(* SpecCli: the continuous program Voxtext.py.  The capture thread runs    *)
(* audio_callback, the main thread the loop of main(); they share only     *)
(* the queue, so one turn of the loop is one step.                         *)
(***************************************************************************)
\* MIN_FINAL_CHARS of Voxtext.py
MIN_FINAL_CHARS_CLI == 1

\* PARTIAL_THROTTLE_S of Voxtext.py (0.08 s), in clock ticks of 40 ms
PARTIAL_THROTTLE_S == 2

\* the texts the recognizer's PartialResult() is taken to return
PartialTexts == {<<>>, <<"a">>, <<"a", " ">>}

\* module level and the head of main(): empty queue, last_final_text = "",
\* partial_last = "", last_partial_print_t = 0.0; time.time() is far above
\* the throttle interval
InitCli ==
    /\ FilterIdle
    /\ GateIdle
    /\ AppIdle
    /\ listening = FALSE /\ stream = "open" /\ audio_q = <<>>
    /\ last_final = <<>> /\ worker_stop = FALSE /\ output = NoLine
    /\ cb_pc = "idle" /\ cb_frame = NoFrame
    /\ ui_pc = "idle" /\ ui_b = NoFrame
    /\ w_pc = "get" /\ w_b = NoFrame /\ w_seen = FALSE
    /\ nframes = 0 /\ cycle = 0 /\ stopped = {}
    /\ rec_last = NoCall /\ fed = <<>> /\ flushes = [c \in 1..MaxCycles |-> 0]
    /\ last_final_text = <<>> /\ partial_last = <<>> /\ last_partial_print_t = 0
    /\ now = PARTIAL_THROTTLE_S /\ finals = <<>> /\ taken = NoFrame /\ gate = GateInit

\* what SpecCli leaves alone of the push-to-talk application's state
pttRest == <<listening, stream, last_final, worker_stop, output, cb_pc, cb_frame,
             ui_pc, ui_b, w_pc, w_b, w_seen, cycle, stopped, flushes>>

\* what SpecCli leaves alone of VoxTextApp's state; main()'s local text and
\* the count of Result() calls are kept in w_text and nres
appRest == <<after_q, textbox, ui_text, w_n, ui_n, p_time>>

\* audio_callback (Voxtext.py:42-52): convert the block, put_nowait, and on
\* queue.Full drop it
audio_callback ==
    /\ nframes < MaxFrames
    /\ \E e \in Energies :
         audio_q' = put_nowait(audio_q, [id |-> nframes + 1, cyc |-> 0, e |-> e])
    /\ nframes' = nframes + 1
    /\ UNCHANGED <<rec_last, fed, last_final_text, partial_last,
                   last_partial_print_t, now, finals, taken, gate>>
    /\ UNCHANGED <<filterVars, pttRest, gateVars, appVars>>

\* a final branch that also asks for the throttle interval to have passed
main_final_throttled ==
    /\ audio_q # <<>>
    /\ audio_q' = Tail(audio_q)
    /\ taken' = Head(audio_q)
    /\ rec_last' = RecCall("accept", "main", Head(audio_q), TRUE, TRUE)
    /\ fed' = Append(fed, Head(audio_q).id)
    /\ gate' = GateStep(gate, Head(audio_q).e)
    /\ nres' = nres + 1
    /\ \E res \in RecTexts :
         LET text == Strip(res)
         IN  /\ w_text' = text
             /\ IF Len(text) >= MIN_FINAL_CHARS_CLI /\ text # last_final_text
                   /\ now - last_partial_print_t >= PARTIAL_THROTTLE_S
                THEN /\ last_final_text' = text
                     /\ partial_last' = <<>>
                     /\ finals' = Append(finals, text)
                ELSE UNCHANGED <<last_final_text, partial_last, finals>>
    /\ UNCHANGED <<nframes, last_partial_print_t, now>>
    /\ UNCHANGED <<filterVars, pttRest, gateVars, appRest>>

\* main(), lines 97-109: the oldest frame goes to AcceptWaveform, which
\* returns true: text = Result()["text"].strip() is printed as FINAL when it
\* is long enough and differs from last_final_text
main_final ==
    /\ audio_q # <<>>
    /\ audio_q' = Tail(audio_q)
    /\ taken' = Head(audio_q)
    /\ rec_last' = RecCall("accept", "main", Head(audio_q), TRUE, TRUE)
    /\ fed' = Append(fed, Head(audio_q).id)
    /\ gate' = GateStep(gate, Head(audio_q).e)
    /\ nres' = nres + 1
    /\ \E res \in RecTexts :
         LET text == Strip(res)
         IN  /\ w_text' = text
             /\ IF Len(text) >= MIN_FINAL_CHARS_CLI /\ text # last_final_text
                THEN /\ last_final_text' = text
                     /\ partial_last' = <<>>
                     /\ finals' = Append(finals, text)
                ELSE UNCHANGED <<last_final_text, partial_last, finals>>
    /\ UNCHANGED <<nframes, last_partial_print_t, now>>
    /\ UNCHANGED <<filterVars, pttRest, gateVars, appRest>>

\* main(), lines 97-100 and 110-120: AcceptWaveform returns false:
\* p = PartialResult()["partial"].strip() is printed when it is not empty,
\* differs from partial_last and the throttle interval has passed
main_partial ==
    /\ audio_q # <<>>
    /\ audio_q' = Tail(audio_q)
    /\ taken' = Head(audio_q)
    /\ rec_last' = RecCall("accept", "main", Head(audio_q), TRUE, TRUE)
    /\ fed' = Append(fed, Head(audio_q).id)
    /\ gate' = GateStep(gate, Head(audio_q).e)
    /\ \E pres \in PartialTexts :
         LET p == Strip(pres)
         IN  IF p # <<>> /\ p # partial_last
                 /\ now - last_partial_print_t >= PARTIAL_THROTTLE_S
             THEN /\ partial_last' = p
                  /\ last_partial_print_t' = now
             ELSE UNCHANGED <<partial_last, last_partial_print_t>>
    /\ UNCHANGED <<nframes, last_final_text, finals, now>>
    /\ UNCHANGED <<filterVars, pttRest, gateVars, appVars>>

\* time passes
tick ==
    /\ now < MaxTime
    /\ now' = now + 1
    /\ UNCHANGED <<audio_q, nframes, rec_last, fed, last_final_text, partial_last,
                   last_partial_print_t, finals, taken, gate>>
    /\ UNCHANGED <<filterVars, pttRest, gateVars, appVars>>

NextCli == audio_callback \/ main_final \/ main_partial \/ tick

SpecCli == InitCli /\ [][NextCli]_vars

(***************************************************************************)
(* SpecApp: VoxTextApp of Voxtext_app.py.  The capture thread runs         *)
(* audio_callback, the Tk main loop runs toggle_listening, on_close and    *)
(* the callbacks scheduled with self.after, the worker thread runs         *)
(* stt_loop.  The worker and the toggle handler share last_final_text,     *)
(* partial_last and last_partial_t, so the statements that read or write   *)
(* them are steps of their own.                                            *)
(***************************************************************************)
\* MIN_FINAL_CHARS of Voxtext_app.py
MIN_FINAL_CHARS_APP == 1

\* the texts Result(), FinalResult() and PartialResult() are taken to return
AppTexts == {<<>>, <<"a">>, <<"b", " ">>}

\* a callback scheduled with self.after(0, ...): kind "final" (append_final of
\* a recognized text, n its rank among the results returned), "nothing"
\* (append_final of the placeholder line) or "partial" (partial_var.set)
AfterCall(kind, n) == [kind |-> kind, n |-> n]

\* __init__ (lines 53-72): not listening, empty queue, no text yet, the
\* stream created and started, the worker thread started
InitApp ==
    /\ FilterIdle
    /\ GateIdle
    /\ AppIdle
    /\ listening = FALSE /\ stream = "open" /\ audio_q = <<>>
    /\ last_final = <<>> /\ worker_stop = FALSE /\ output = NoLine
    /\ cb_pc = "idle" /\ cb_frame = NoFrame
    /\ ui_pc = "idle" /\ ui_b = NoFrame
    /\ w_pc = "get" /\ w_b = NoFrame /\ w_seen = FALSE
    /\ nframes = 0 /\ cycle = 0 /\ stopped = {}
    /\ rec_last = NoCall /\ fed = <<>> /\ flushes = [c \in 1..MaxCycles |-> 0]
    /\ last_final_text = <<>> /\ partial_last = <<>> /\ last_partial_print_t = 0
    /\ now = PARTIAL_THROTTLE_S /\ finals = <<>> /\ taken = NoFrame /\ gate = "none"

\* what SpecApp leaves alone: the other programs' state and the bookkeeping
\* of the other specifications; of the FINAL texts, finals keeps the most
\* recent one here
appUnused == <<filterVars, gateVars, last_final, output, cb_pc, cb_frame, ui_b,
               w_seen, stopped, rec_last, fed, flushes, taken, gate>>

\* audio_callback (lines 177-188): nothing while not listening, else
\* put_nowait, and on queue.Full the frame is dropped
app_audio_callback ==
    /\ stream = "open"
    /\ listening
    /\ nframes < MaxFrames
    /\ nframes' = nframes + 1
    /\ audio_q' = put_nowait(audio_q, [id |-> nframes + 1, cyc |-> cycle])
    /\ UNCHANGED <<listening, stream, worker_stop, ui_pc, w_pc, w_b, cycle,
                   last_final_text, partial_last, last_partial_print_t, now, finals>>
    /\ UNCHANGED <<appUnused, appVars>>

\* toggle_listening, lines 191-197: the start branch sets self.listening
toggle_start ==
    /\ ui_pc = "idle"
    /\ ~listening
    /\ cycle < MaxCycles
    /\ listening' = TRUE
    /\ cycle' = cycle + 1
    /\ ui_pc' = "clear"
    /\ UNCHANGED <<stream, audio_q, worker_stop, w_pc, w_b, nframes,
                   last_final_text, partial_last, last_partial_print_t, now, finals>>
    /\ UNCHANGED <<appUnused, appVars>>

\* toggle_listening, lines 199-208: last_final_text, partial_last and
\* last_partial_t are cleared, the recognizer is reset and the queue emptied
toggle_clear ==
    /\ ui_pc = "clear"
    /\ last_final_text' = <<>>
    /\ partial_last' = <<>>
    /\ last_partial_print_t' = 0
    /\ audio_q' = <<>>
    /\ ui_pc' = "idle"
    /\ UNCHANGED <<listening, stream, worker_stop, w_pc, w_b, nframes, cycle,
                   now, finals>>
    /\ UNCHANGED <<appUnused, appVars>>

\* toggle_listening, lines 209-215: the stop branch clears self.listening
toggle_stop ==
    /\ ui_pc = "idle"
    /\ listening
    /\ listening' = FALSE
    /\ ui_pc' = "drain"
    /\ UNCHANGED <<stream, audio_q, worker_stop, w_pc, w_b, nframes, cycle,
                   last_final_text, partial_last, last_partial_print_t, now, finals>>
    /\ UNCHANGED <<appUnused, appVars>>

\* toggle_listening, lines 218-224: one turn of the drain: the deadline has
\* passed or the queue is empty, else the oldest frame goes to AcceptWaveform
toggle_drain ==
    /\ ui_pc = "drain"
    /\ \/ /\ ui_pc' = "final"
          /\ UNCHANGED audio_q
       \/ /\ audio_q # <<>>
          /\ audio_q' = Tail(audio_q)
          /\ UNCHANGED ui_pc
    /\ UNCHANGED <<listening, stream, worker_stop, w_pc, w_b, nframes, cycle,
                   last_final_text, partial_last, last_partial_print_t, now, finals>>
    /\ UNCHANGED <<appUnused, appVars>>

\* toggle_listening, lines 226-230: text = FinalResult()["text"].strip(), or
\* "" when the call raises
toggle_final ==
    /\ ui_pc = "final"
    /\ \E res \in AppTexts :
         ui_text' = Strip(res)
    /\ nres' = nres + 1
    /\ ui_n' = nres + 1
    /\ ui_pc' = "record"
    /\ UNCHANGED <<listening, stream, audio_q, worker_stop, w_pc, w_b, nframes, cycle,
                   last_final_text, partial_last, last_partial_print_t, now, finals>>
    /\ UNCHANGED <<appUnused, after_q, textbox, w_text, w_n, p_time>>

\* toggle_listening, lines 232-233 and 235-236: the text, when long enough
\* and not equal to last_final_text, is stored in last_final_text; else the
\* placeholder line is scheduled and the handler is over
toggle_record ==
    /\ ui_pc = "record"
    /\ IF Len(ui_text) >= MIN_FINAL_CHARS_APP /\ ui_text # last_final_text
       THEN /\ last_final_text' = ui_text
            /\ ui_pc' = "emit"
            /\ UNCHANGED <<after_q, ui_text, ui_n>>
       ELSE /\ after_q' = Append(after_q, AfterCall("nothing", 0))
            /\ ui_text' = <<>>
            /\ ui_n' = 0
            /\ ui_pc' = "idle"
            /\ UNCHANGED last_final_text
    /\ UNCHANGED <<listening, stream, audio_q, worker_stop, w_pc, w_b, nframes, cycle,
                   partial_last, last_partial_print_t, now, finals>>
    /\ UNCHANGED <<appUnused, textbox, w_text, w_n, nres, p_time>>

\* toggle_listening, line 234: the display of the stored text is scheduled
\* with self.after: the Final is emitted
toggle_emit ==
    /\ ui_pc = "emit"
    /\ finals' = <<ui_text>>
    /\ after_q' = Append(after_q, AfterCall("final", ui_n))
    /\ ui_text' = <<>>
    /\ ui_n' = 0
    /\ ui_pc' = "idle"
    /\ UNCHANGED <<listening, stream, audio_q, worker_stop, w_pc, w_b, nframes, cycle,
                   last_final_text, partial_last, last_partial_print_t, now>>
    /\ UNCHANGED <<appUnused, textbox, w_text, w_n, nres, p_time>>

\* the Tk main loop, idle, runs the oldest scheduled callback: append_final
\* (lines 140-142) or partial_var.set
after_run ==
    /\ ui_pc = "idle"
    /\ after_q # <<>>
    /\ after_q' = Tail(after_q)
    /\ textbox' = IF Head(after_q).kind = "final" THEN Head(after_q).n ELSE textbox
    /\ UNCHANGED <<listening, stream, audio_q, worker_stop, ui_pc, w_pc, w_b, nframes,
                   cycle, last_final_text, partial_last, last_partial_print_t,
                   now, finals>>
    /\ UNCHANGED <<appUnused, w_text, ui_text, w_n, ui_n, nres, p_time>>

\* on_close (lines 265-274): stop_event is set, listening cleared, the
\* stream stopped and closed, the window destroyed
app_on_close ==
    /\ ui_pc = "idle"
    /\ worker_stop' = TRUE
    /\ listening' = FALSE
    /\ stream' = "none"
    /\ ui_pc' = "closed"
    /\ UNCHANGED <<audio_q, w_pc, w_b, nframes, cycle,
                   last_final_text, partial_last, last_partial_print_t, now, finals>>
    /\ UNCHANGED <<appUnused, appVars>>

\* stt_loop, lines 239-243: leave the loop when stop_event is set, else
\* take the oldest frame (an empty queue times out and the loop turns again)
stt_get ==
    /\ w_pc = "get"
    /\ IF worker_stop
       THEN /\ w_pc' = "exit"
            /\ UNCHANGED <<audio_q, w_b>>
       ELSE IF audio_q # <<>>
       THEN /\ w_b' = Head(audio_q)
            /\ audio_q' = Tail(audio_q)
            /\ w_pc' = "check"
       ELSE UNCHANGED <<audio_q, w_b, w_pc>>
    /\ UNCHANGED <<listening, stream, worker_stop, ui_pc, nframes, cycle,
                   last_final_text, partial_last, last_partial_print_t, now, finals>>
    /\ UNCHANGED <<appUnused, appVars>>

\* stt_loop, lines 245-246: if not self.listening: continue
stt_check ==
    /\ w_pc = "check"
    /\ IF listening
       THEN /\ w_pc' = "accept"
            /\ UNCHANGED w_b
       ELSE /\ w_pc' = "get"
            /\ w_b' = NoFrame
    /\ UNCHANGED <<listening, stream, audio_q, worker_stop, ui_pc, nframes, cycle,
                   last_final_text, partial_last, last_partial_print_t, now, finals>>
    /\ UNCHANGED <<appUnused, appVars>>

\* stt_loop, line 250: self.rec.AcceptWaveform(data) returns true (an
\* utterance is complete) or false
stt_accept ==
    /\ w_pc = "accept"
    /\ w_b' = NoFrame
    /\ w_pc' \in {"result", "partial"}
    /\ UNCHANGED <<listening, stream, audio_q, worker_stop, ui_pc, nframes, cycle,
                   last_final_text, partial_last, last_partial_print_t, now, finals>>
    /\ UNCHANGED <<appUnused, appVars>>

\* stt_loop, line 250: self.rec.AcceptWaveform(data) raises; nothing in
\* stt_loop catches the exception, so the thread ends
stt_accept_raises ==
    /\ w_pc = "accept"
    /\ w_b' = NoFrame
    /\ w_pc' = "dead"
    /\ UNCHANGED <<listening, stream, audio_q, worker_stop, ui_pc, nframes, cycle,
                   last_final_text, partial_last, last_partial_print_t, now, finals>>
    /\ UNCHANGED <<appUnused, appVars>>

\* stt_loop, lines 251-252: text = Result()["text"].strip()
stt_result ==
    /\ w_pc = "result"
    /\ \E res \in AppTexts :
         w_text' = Strip(res)
    /\ nres' = nres + 1
    /\ w_n' = nres + 1
    /\ w_pc' = "record"
    /\ UNCHANGED <<listening, stream, audio_q, worker_stop, ui_pc, w_b, nframes, cycle,
                   last_final_text, partial_last, last_partial_print_t, now, finals>>
    /\ UNCHANGED <<appUnused, after_q, textbox, ui_text, ui_n, p_time>>

\* stt_loop, lines 253-254: the text, when long enough and not equal to
\* last_final_text, is stored in last_final_text; else the loop turns again
stt_record ==
    /\ w_pc = "record"
    /\ IF Len(w_text) >= MIN_FINAL_CHARS_APP /\ w_text # last_final_text
       THEN /\ last_final_text' = w_text
            /\ w_pc' = "emit"
            /\ UNCHANGED <<w_text, w_n>>
       ELSE /\ w_text' = <<>>
            /\ w_n' = 0
            /\ w_pc' = "get"
            /\ UNCHANGED last_final_text
    /\ UNCHANGED <<listening, stream, audio_q, worker_stop, ui_pc, w_b, nframes, cycle,
                   partial_last, last_partial_print_t, now, finals>>
    /\ UNCHANGED <<appUnused, after_q, textbox, ui_text, ui_n, nres, p_time>>

\* stt_loop, line 255: the display of the stored text is scheduled with
\* self.after: the Final is emitted
stt_emit ==
    /\ w_pc = "emit"
    /\ finals' = <<w_text>>
    /\ after_q' = Append(after_q, AfterCall("final", w_n))
    /\ w_text' = <<>>
    /\ w_n' = 0
    /\ w_pc' = "get"
    /\ UNCHANGED <<listening, stream, audio_q, worker_stop, ui_pc, w_b, nframes, cycle,
                   last_final_text, partial_last, last_partial_print_t, now>>
    /\ UNCHANGED <<appUnused, textbox, ui_text, ui_n, nres, p_time>>

\* stt_loop, lines 257-263: p = PartialResult()["partial"].strip() is
\* scheduled for display when it is not empty, differs from partial_last and
\* the throttle interval has passed since last_partial_t
stt_partial ==
    /\ w_pc = "partial"
    /\ \E pres \in AppTexts :
         LET p == Strip(pres)
         IN  IF p # <<>> /\ p # partial_last
                 /\ now - last_partial_print_t >= PARTIAL_THROTTLE_S
             THEN /\ partial_last' = p
                  /\ last_partial_print_t' = now
                  /\ after_q' = Append(after_q, AfterCall("partial", 0))
                  /\ p_time' = now
             ELSE UNCHANGED <<partial_last, last_partial_print_t, after_q, p_time>>
    /\ w_pc' = "get"
    /\ UNCHANGED <<listening, stream, audio_q, worker_stop, ui_pc, w_b, nframes, cycle,
                   last_final_text, now, finals>>
    /\ UNCHANGED <<appUnused, textbox, w_text, ui_text, w_n, ui_n, nres>>

NextApp ==
    \/ app_audio_callback
    \/ toggle_start \/ toggle_clear
    \/ toggle_stop \/ toggle_drain \/ toggle_final \/ toggle_record \/ toggle_emit
    \/ after_run \/ app_on_close
    \/ stt_get \/ stt_check \/ stt_accept \/ stt_accept_raises
    \/ stt_result \/ stt_record \/ stt_emit \/ stt_partial
    \/ tick

SpecApp == InitApp /\ [][NextApp]_vars

(***************************************************************************)
(* Claims about the duplicate filter                                       *)
(***************************************************************************)
\* Lower-casing and whitespace collapsing stated directly on the characters:
\* a whitespace character is kept (as one blank) only between two words.
RECURSIVE Collapse(_, _)
Collapse(s, pendingBlank) ==
    IF s = <<>> THEN <<>>
    ELSE IF Head(s) = " " THEN Collapse(Tail(s), TRUE)
    ELSE (IF pendingBlank THEN <<" ">> ELSE <<>>)
         \o <<(IF Head(s) = "A" THEN "a" ELSE Head(s))>>
         \o Collapse(Tail(s), FALSE)

RECURSIVE DropLeadingBlanks(_)
DropLeadingBlanks(s) ==
    IF s # <<>> /\ Head(s) = " " THEN DropLeadingBlanks(Tail(s)) ELSE s

Normal(s) == Collapse(DropLeadingBlanks(s), FALSE)

\* C8: should_print is false whenever the normalized new text is empty or
\* equals the normalized last accepted text; and a text that was accepted and
\* recorded as the last accepted text is rejected when presented again.
C8_DuplicateRejected ==
    /\ (f_pc # "call" /\ (Normal(f_new) = <<>> \/ Normal(f_new) = Normal(f_last0)))
            => f_res1 = FALSE
    /\ (f_pc = "done" /\ f_res1) => (f_last = f_new /\ f_res2 = FALSE)

\* C8 witness: a text was accepted, recorded, presented again and rejected
C8_Witness ==
    /\ f_pc = "done" /\ f_res1 /\ ~f_res2
    /\ f_last = f_new /\ f_last0 # <<>>

\* C9: for non-empty, different normalized texts n (new) and l (last): when
\* one contains the other, the new text is accepted exactly when it is
\* strictly longer; when neither contains the other it is accepted; and with
\* an empty last text every non-empty new text is accepted.
C9_NearDuplicateLaw ==
    LET n == Normal(f_new)
        l == Normal(f_last0)
    IN  f_pc # "call" =>
        /\ (n # <<>> /\ l # <<>> /\ n # l /\ (IsSubstring(n, l) \/ IsSubstring(l, n)))
              => (f_res1 <=> Len(n) > Len(l))
        /\ (n # <<>> /\ l # <<>> /\ n # l /\ ~IsSubstring(n, l) /\ ~IsSubstring(l, n))
              => f_res1
        /\ (n # <<>> /\ l = <<>>) => f_res1

\* C9 witness: the new text is a proper part of the last one and is rejected
C9_Witness ==
    /\ f_pc # "call"
    /\ Normal(f_new) # <<>>
    /\ Normal(f_new) # Normal(f_last0)
    /\ IsSubstring(Normal(f_new), Normal(f_last0))
    /\ f_res1 = FALSE

(***************************************************************************)
(* Claims about the push-to-talk application (Spec)                        *)
(***************************************************************************)
\* the positions of the Tk thread inside a call on the recognizer
UiInRecognizer == {"in_reset", "in_drain_accept", "in_final"}

\* C2: the recognizer is driven by one context at a time: no call made on it
\* by the toggle handler overlaps a call to AcceptWaveform made by the worker.
C2_SingleContext ==
    ~(w_pc = "in_accept" /\ ui_pc \in UiInRecognizer)

\* C3: frames reach the recognizer in capture order: of two frames fed, the
\* one captured (and enqueued) first is accepted first.
C3_CaptureOrder ==
    \A i, j \in 1..Len(fed) : i < j => fed[i] < fed[j]

C6_FlushAfterLastFrame ==
    /\ \A c \in 1..MaxCycles :
          /\ flushes[c] <= 1
          /\ flushes[c] = 1 => c \in stopped
    /\ rec_last.op = "accept" => flushes[rec_last.cyc] = 0

\* C7: when a listen cycle has been started the last accepted final text is
\* cleared, so a flushed text that is long enough and not blank is shown
\* whatever the previous cycle showed.
C7_CycleStartsClean ==
    /\ (ui_pc = "idle" /\ listening) => last_final = <<>>
    /\ (output.cyc >= 1 /\ Len(output.text) >= MIN_FINAL_CHARS
            /\ normalize_text(output.text) # <<>>) => output.shown


(***************************************************************************)
(* Claims about the continuous program (SpecCli)                           *)
(***************************************************************************)
\* C1: the queue never holds more frames than its capacity; a push is always
\* possible (it does not wait for room), and a push onto a full queue drops
\* the incoming frame and leaves the queued frames as they are.
C1_BoundedDropNewest ==
    /\ [](Len(audio_q) <= maxsize)
    /\ [](nframes < MaxFrames => ENABLED audio_callback)
    /\ [][(nframes' = nframes + 1 /\ Len(audio_q) = maxsize) => audio_q' = audio_q]_vars

\* C1 witness: the queue is full and a captured frame has been dropped
C1_Witness ==
    /\ Len(audio_q) = maxsize
    /\ nframes > Len(fed) + Len(audio_q)

\* C5: the frame taken from the queue is fed to the recognizer exactly when
\* the gate, having seen that frame, is in Speech or Hangover.
C5_FedExactlyWhenGateOpen ==
    taken # NoFrame =>
        ((rec_last.op = "accept" /\ rec_last.id = taken.id) <=> gate.state \in GateOpen)

\* C10: no FINAL text printed is empty or shorter than the minimum length,
\* and none equals, after normalization, the FINAL printed just before it.
C10_FinalsFiltered ==
    \A i \in 1..Len(finals) :
        /\ finals[i] # <<>>
        /\ Len(finals[i]) >= MIN_FINAL_CHARS_CLI
        /\ i > 1 => Normal(finals[i]) # Normal(finals[i - 1])


(***************************************************************************)
(* Claims about the gate (SpecGate)                                        *)
(***************************************************************************)
\* C16: as long as every frame after calibration has had an energy below
\* minAbsoluteThreshold, the gate, once calibrated, is in Silence or Onset
\* and no frame has been fed, whatever the floor is.
C16_QuietNeverOpens ==
    ~g_loud =>
        /\ gate.state \in {"Calibrating", "Silence", "Onset"}
        /\ gate.state = "Calibrating" => nframes < CalibFrames
        /\ fed = <<>>

\* quiet frames only, after a calibration that left the floor above the
\* minimum
C16_Witness ==
    /\ ~g_loud
    /\ nframes >= CalibFrames + 2
    /\ gate.floor > MinAbsThreshold

\* C17: Onset is entered from Silence only and never lasts the minimum
\* speech duration; a frame below the start threshold met in Onset takes
\* the gate back to Silence with the onset duration reset, and neither that
\* frame nor a frame of the burst before it has been fed.
C17_ShortBurstRejected ==
    /\ (gate.state = "Onset" /\ g_prev.state # "Onset") => g_prev.state = "Silence"
    /\ gate.state = "Onset" => gate.onset < MinSpeechFrames
    /\ (g_prev.state = "Onset"
        /\ ~AtLeastThreshold(taken.e, g_prev.floor, StartMultiplierX10))
       => /\ gate.state = "Silence"
          /\ gate.onset = 0
          /\ \A k \in 1..Len(fed) : fed[k] < nframes - g_prev.onset

\* a burst has just been rejected, and nothing was ever fed
C17_Witness ==
    /\ g_prev.state = "Onset"
    /\ gate.state = "Silence"
    /\ fed = <<>>

\* C18: forceFinalize is emitted in Silence on the frame with which the
\* silence counter reaches the forced-finalize duration, the counter is 0
\* after it, and at most one forceFinalize is emitted between two visits
\* of Speech.
C18_OneForceFinalize ==
    /\ g_ff <= 1
    /\ gate.event = "forceFinalize" =>
          /\ gate.sil = 0
          /\ g_ff = 1
          /\ g_prev.state = "Silence" /\ gate.state = "Silence"
          /\ g_prev.sil + 1 >= ForceFinalizeFrames
    /\ (g_prev.state = "Silence" /\ gate.state = "Silence"
        /\ g_prev.sil > 0 /\ g_prev.sil + 1 >= ForceFinalizeFrames)
       => gate.event = "forceFinalize"

\* the silence went on after the forceFinalize
C18_Witness ==
    /\ g_ff = 1
    /\ gate.state = "Silence" /\ g_prev.state = "Silence"
    /\ gate.event = "none" /\ g_prev.event = "none"

\* C19 as stated: the floor changes on a frame only when the gate was in
\* Silence or Onset and the frame's energy was below the start threshold.
C19_FloorOnlyInSilenceOnset ==
    (nframes > 0 /\ gate.floor # g_prev.floor) =>
        /\ g_prev.state \in {"Silence", "Onset"}
        /\ ~AtLeastThreshold(taken.e, g_prev.floor, StartMultiplierX10)

\* C19: after calibration, the floor changes on a frame only when the gate
\* was in Silence or Onset and the frame's energy was below the start
\* threshold; the frames of the calibration window seed the floor.
C19_FloorAfterCalibration ==
    (nframes > 0 /\ g_prev.state # "Calibrating" /\ gate.floor # g_prev.floor) =>
        /\ g_prev.state \in {"Silence", "Onset"}
        /\ ~AtLeastThreshold(taken.e, g_prev.floor, StartMultiplierX10)

\* the frame that ended an onset moved the floor
C19_Witness ==
    /\ g_prev.state = "Onset"
    /\ gate.floor # g_prev.floor


(***************************************************************************)
(* Claims about the continuous program's finals and partials (SpecCli)     *)
(***************************************************************************)
\* C12: when Result() returns a text, that text is printed as FINAL exactly
\* when it has the minimum length and differs from last_final_text,
\* whatever the clock, the time of the last partial and partial_last are.
C12_FinalNotThrottled ==
    [][nres' = nres + 1 =>
         /\ finals' = Append(finals, w_text')
              <=> (Len(w_text') >= MIN_FINAL_CHARS_CLI /\ w_text' # last_final_text)
         /\ finals' # finals => finals' = Append(finals, w_text')]_vars

\* a FINAL was printed (it cleared partial_last) less than the throttle
\* interval after a partial
C12_Witness ==
    /\ finals # <<>>
    /\ partial_last = <<>>
    /\ last_partial_print_t > 0
    /\ now - last_partial_print_t < PARTIAL_THROTTLE_S


(***************************************************************************)
(* Claims about listen cycles and shutdown of PushToTalkApp                *)
(***************************************************************************)
\* C20: every frame given to AcceptWaveform was captured in the listen
\* cycle that is current at the call.
C20_NoStaleFrame ==
    [][fed' # fed => rec_last'.cyc = cycle']_vars


\* C14: once on_close has set worker_stop the worker leaves its loop, and
\* when on_close is over the stream is stopped and closed.
C14_ShutdownCompletes ==
    /\ worker_stop ~> (w_pc = "exit")
    /\ [](ui_pc = "closed" => (worker_stop /\ stream = "none"))

\* the worker has left its loop on an empty queue and the stream is gone
C14_Witness ==
    /\ worker_stop
    /\ w_pc = "exit"
    /\ audio_q = <<>> /\ fed = <<>>
    /\ ui_pc = "closed" /\ stream = "none"
    /\ cycle > 0


(***************************************************************************)
(* Claims about VoxTextApp (SpecApp)                                       *)
(***************************************************************************)
\* C11: a partial text is scheduled for display only when at least the
\* throttle interval has passed since the partial scheduled before it.
C11_PartialsThrottled ==
    [][(after_q' = Append(after_q, AfterCall("partial", 0)) /\ p_time >= 0)
          => now - p_time >= PARTIAL_THROTTLE_S]_vars

\* C13: the recognized texts are inserted into the text box in the order in
\* which the recognizer returned them.
C13_FinalsInOrder ==
    [][textbox' # textbox => textbox' > textbox]_vars

\* C15: the worker thread does not end on a failure of AcceptWaveform.
C15_WorkerSurvivesFailure ==
    w_pc # "dead"

\* C21: whenever no thread stands between storing a text and emitting it,
\* last_final_text is empty or the text of the Final emitted last.
C21_LastFinalIsLastEmitted ==
    (ui_pc # "emit" /\ w_pc # "emit") =>
        \/ last_final_text = <<>>
        \/ finals # <<>> /\ last_final_text = finals[Len(finals)]

=============================================================================
